---- MODULE Spec2Model ----
(***************************************************************************)
(* Layered configuration resolution of RedThePanda6/botconfig.             *)
(*                                                                         *)
(* The repository holds three builds of the same engine:                   *)
(*   "last"  - botconfig.go lines 1-530, mergeConfigs folds includes last  *)
(*   "first" - botconfig.go lines 532-1090, includes are folded first      *)
(*   "model" - modelconfig.go, one layer, includes folded first            *)
(* A behaviour is one run of one build over one file system.               *)
(*                                                                         *)
(* A JSON object is a function from its keys to their values; a tag is the *)
(* sequence of its space-separated words.                                  *)
(***************************************************************************)
EXTENDS Integers, Sequences, FiniteSets, TLC

VARIABLES
    variant,        \* which build runs
    files,          \* the Layer Source: locator -> content of the file
    vtuberSoftware, \* flag --vtuberSoftware ("first" only)
    onCall,         \* flag --oncall
    pc,             \* position of main
    configs,        \* the records main read for its layers
    twitchConfigs,  \* the accumulator (named config in modelconfig.go)
    includesSeen,   \* the process-wide set of expanded include locators
    reads,          \* how often readFromFile was called on each include
    log             \* the slog lines "<layer> configs..." / "Inlcuded ..."

vars == <<variant, files, vtuberSoftware, onCall, pc, configs, twitchConfigs,
          includesSeen, reads, log>>

-----------------------------------------------------------------------------
(* Bounds *)

\* Recursion depth of mergeConfigs after which the Go stack is taken to be
\* exhausted. With two include fragments a terminating fold nests at most
\* three calls.
MaxDepth == 4

-----------------------------------------------------------------------------
(* Program constants *)

Variants == {"last", "first", "model"}

defaultTags == << <<"FirstPlaythrough">>, <<"NoBackseating">> >>
defaultLPTalkingCost == 250
defaultLPGameCost == defaultLPTalkingCost * 2
validVTuberSoftware == {"None", "Veadotube", "VNyan", "VTS"}
defaultVTuberSoftware == "VNyan"
MaxTags == 10

\* --game, as the sequence of its characters
game == <<"A", ":", "B">>

BoolFieldsLast ==
    {"DeathCounter", "DeskCam", "GamePad", "OrpaxMemorial", "Uptime",
     "OutfitPoll", "SongRequests", "BedTime", "ChosenOne", "CreepyTime",
     "NameAThing", "NoBeanie", "NoGlasses", "RaidRoulette", "Modlist",
     "GameFound", "OnCall", "PauseableGame", "YTGameInTitle"}

BoolFieldsFirst ==
    {"DeathCounter", "DeskCam", "GamePad", "OrpaxMemorial", "Uptime",
     "OutfitPoll", "SongRequests", "BedTime", "ChosenOne", "CreepyTime",
     "JibberJabbey", "NameAThing", "NoBeanie", "RaidRoulette", "Modlist",
     "GameFound", "OnCall", "PauseableGame", "YTGameInTitle"}

BoolFieldsModel ==
    {"ConfigFound", "AnvilDrop", "ASCIIRed", "Bonk", "Boop", "Chaos", "Feets",
     "Fisheye", "Headpats", "NoGlasses", "NuggiesForRed", "PeltThePanda",
     "PieDrop", "PostItRed", "RedInABox", "RentThisHat", "SpinThePanda",
     "SprayBottle", "SuspiciousRed", "SwolePanda", "Tail", "TimeWarpScan",
     "ToughLove"}

\* reflect: the fields of Kind Bool of the build's config struct
BoolFields(v) ==
    CASE v = "last" -> BoolFieldsLast
      [] v = "first" -> BoolFieldsFirst
      [] OTHER -> BoolFieldsModel

\* the field readFromFile uses as the found flag
FoundField(v) == IF v = "model" THEN "ConfigFound" ELSE "GameFound"

newConfigLast ==
    [f \in BoolFieldsLast |->
        f \in {"ChosenOne", "NoGlasses", "OutfitPoll", "PauseableGame",
               "RaidRoulette", "YTGameInTitle"}]
    @@ [Include |-> "", StreamTags |-> <<>>, TitleSuffix |-> "",
        VTuberSoftware |-> "", VNyanOutfit |-> "", PandaSign |-> "default",
        LPGameCost |-> defaultLPGameCost,
        LPTalkingCost |-> defaultLPTalkingCost,
        NotifyInterval |-> 5, EndHour |-> 0, EndMinute |-> 0,
        GameName |-> ""]

newConfigFirst ==
    [f \in BoolFieldsFirst |->
        f \in {"ChosenOne", "JibberJabbey", "OutfitPoll", "PauseableGame",
               "RaidRoulette", "YTGameInTitle"}]
    @@ [Include |-> "", StreamTags |-> <<>>, TitleSuffix |-> "",
        VTuberSoftware |-> "", VNyanOutfit |-> "", PandaSign |-> "default",
        BambooRequestCost |-> 20,
        LPGameCost |-> defaultLPGameCost,
        LPTalkingCost |-> defaultLPTalkingCost,
        NotifyInterval |-> 5, EndHour |-> 0, EndMinute |-> 0,
        GameName |-> "", SanitizedGameName |-> ""]

newConfigModel ==
    [f \in BoolFieldsModel |-> f \notin {"ConfigFound"}]
    @@ [Include |-> "", ModelFileName |-> "", Software |-> ""]

newConfig(v) ==
    CASE v = "last" -> newConfigLast
      [] v = "first" -> newConfigFirst
      [] OTHER -> newConfigModel

-----------------------------------------------------------------------------
(* Locators *)

IncludeNames == {"A", "B"}

includeFile(name) == "includes\\" \o name \o ".json"

IncludeFiles == {includeFile(name) : name \in IncludeNames}

\* the layers with the topic layer read and folded before the global layer
LayerKeysTopicFirst(v) ==
    CASE v = "last" -> <<"game", "global", "day", "date">>
      [] v = "first" -> <<"game", "global", "day", "date", "yeardate">>
      [] OTHER -> <<"model">>

\* the layers main reads, in the order main folds them
LayerKeys(v) ==
    CASE v = "last" -> <<"global", "game", "day", "date">>
      [] v = "first" -> <<"global", "game", "day", "date", "yeardate">>
      [] OTHER -> <<"model">>

LayerSet == {"global", "game", "day", "date", "yeardate", "model"}

RECURSIVE Join(_)
Join(words) == IF words = <<>> THEN "" ELSE Head(words) \o Join(Tail(words))

sanitizeGame(s) ==
    [i \in DOMAIN s |->
        IF s[i] \in {":", "&", "#", "\\", "/", "?", "@", "+", "|", "=", ","}
        THEN "_" ELSE s[i]]

layerFile(l) ==
    CASE l = "global" -> "global.json"
      [] l = "game" -> "games\\" \o Join(sanitizeGame(game)) \o ".json"
      [] l = "day" -> "day\\Monday.json"
      [] l = "date" -> "date\\May-4.json"
      [] l = "yeardate" -> "date\\May-4-2026.json"
      [] OTHER -> "model.json"

LayerFiles == {layerFile(l) : l \in LayerSet}

Locators == LayerFiles \cup IncludeFiles

-----------------------------------------------------------------------------
(* File contents *)

Absent == [absent |-> TRUE]
Malformed == [malformed |-> TRUE]

IsAbsent(j) == "absent" \in DOMAIN j
IsMalformed(j) == "malformed" \in DOMAIN j


\* os.Open(f) succeeded
Exists(f) == f \in DOMAIN files /\ ~IsAbsent(files[f])

\* json.Decoder.Decode(&c): a value that is not valid JSON leaves c as it
\* is; an object overlays the fields whose keys it holds.
Decode(c, j) ==
    IF IsMalformed(j) \/ IsAbsent(j) THEN c
    ELSE [k \in DOMAIN c |-> IF k \in DOMAIN j THEN j[k] ELSE c[k]]

readFromFile(v, f) ==
    LET c == [newConfig(v) EXCEPT ![FoundField(v)] = TRUE]
    IN  IF ~Exists(f)
        THEN [c EXCEPT ![FoundField(v)] = FALSE]
        ELSE Decode(c, files[f])

-----------------------------------------------------------------------------
(* Field resolution *)

\* the tag compared as it is written
StripSpacesNever(tag) == tag

\* strings.ReplaceAll(item, " ", "")
StripSpaces(tag) == <<Join(tag)>>

RECURSIVE removeDuplicateLoop(_, _)
removeDuplicateLoop(strSlice, list) ==
    IF strSlice = <<>> THEN list
    ELSE LET item == StripSpaces(Head(strSlice))
         IN  removeDuplicateLoop(
                Tail(strSlice),
                IF \E i \in DOMAIN list : list[i] = item
                THEN list ELSE Append(list, item))

removeDuplicateStr(strSlice) == removeDuplicateLoop(strSlice, <<>>)

\* resolveBool without the test of the field's default
resolveBoolAlwaysOr(v, a, b, field) == a[field] \/ b[field]

\* resolveBool taking the value of the incoming record
resolveBoolIncoming(v, a, b, field) == b[field]

resolveBool(v, a, b, field) ==
    IF newConfig(v)[field]
    THEN a[field] /\ b[field]
    ELSE a[field] \/ b[field]

\* the tag union with the incoming tags put before the existing ones
mergeStreamTagsIncomingFirst(v, o, n) ==
    IF v = "model" THEN o
    ELSE [o EXCEPT !.StreamTags =
            removeDuplicateStr(n.StreamTags \o o.StreamTags)]

\* o.StreamTags = removeDuplicateStr(append(o.StreamTags, n.StreamTags...))
mergeStreamTags(v, o, n) ==
    IF v = "model" THEN o
    ELSE [o EXCEPT !.StreamTags =
            removeDuplicateStr(o.StreamTags \o n.StreamTags)]

\* the mode taken from the layer without the test against the legal values
mergeVTuberSoftwareUnchecked(o, n) ==
    IF n.VTuberSoftware # "" THEN n.VTuberSoftware ELSE o.VTuberSoftware

mergeVTuberSoftware(o, n) ==
    IF n.VTuberSoftware # "" /\ n.VTuberSoftware \in validVTuberSoftware
    THEN n.VTuberSoftware ELSE o.VTuberSoftware

mergeTitleSuffix(o, n) ==
    IF n.TitleSuffix # "" THEN n.TitleSuffix ELSE o.TitleSuffix

\* the interval resolved to the larger value
mergeNotifyIntervalMax(o, n) ==
    IF n.NotifyInterval > o.NotifyInterval
    THEN n.NotifyInterval ELSE o.NotifyInterval

mergeNotifyInterval(o, n) ==
    IF n.NotifyInterval < o.NotifyInterval
    THEN n.NotifyInterval ELSE o.NotifyInterval

mergePandaSign(o, n) ==
    IF n.PandaSign # "default" THEN n.PandaSign ELSE o.PandaSign

mergeNonZero(o, n, field) ==
    IF n[field] # 0 THEN n[field] ELSE o[field]

\* the outfit assigned without the test for the empty string
mergeVNyanOutfitAlways(o, n) == n.VNyanOutfit

mergeVNyanOutfit(o, n) ==
    IF n.VNyanOutfit # "" THEN n.VNyanOutfit ELSE o.VNyanOutfit

\* the cost taken from the layer unless it is zero
mergeLPCostNonZero(o, n, field, sentinel) ==
    IF n[field] # 0 THEN n[field] ELSE o[field]

mergeLPCost(o, n, field, sentinel) ==
    IF n[field] # sentinel THEN n[field] ELSE o[field]

mergeBambooRequestCost(o, n) ==
    IF n.BambooRequestCost > o.BambooRequestCost
    THEN n.BambooRequestCost ELSE o.BambooRequestCost

mergeSoftware(o, n) ==
    IF n.Software # "" THEN n.Software ELSE o.Software

\* the assignments of mergeConfigs other than the tag union and the include
directFields(v, o, n) ==
    [f \in DOMAIN o |->
        CASE f \in BoolFields(v) -> resolveBool(v, o, n, f)
          [] f = "VTuberSoftware" -> mergeVTuberSoftware(o, n)
          [] f = "TitleSuffix" -> mergeTitleSuffix(o, n)
          [] f = "NotifyInterval" -> mergeNotifyInterval(o, n)
          [] f = "PandaSign" -> mergePandaSign(o, n)
          [] f \in {"EndHour", "EndMinute"} -> mergeNonZero(o, n, f)
          [] f = "VNyanOutfit" -> mergeVNyanOutfit(o, n)
          [] f = "LPGameCost" -> mergeLPCost(o, n, f, defaultLPGameCost)
          [] f = "LPTalkingCost" -> mergeLPCost(o, n, f, defaultLPTalkingCost)
          [] f = "BambooRequestCost" -> mergeBambooRequestCost(o, n)
          [] f = "Software" -> mergeSoftware(o, n)
          [] OTHER -> o[f]]

-----------------------------------------------------------------------------
(* Include expansion *)

LogLine(msg, key) == [msg |-> msg, key |-> key]

\* when the build records the locator in includesSeen: before reading the
\* fragment ("first", "model") or after folding it ("last")
MarksBeforeRead(v) == v # "last"

\* every build folding the include after n's own fields
IncludeFirstNever(v) == FALSE

\* whether the include of n is folded before n's own fields
IncludeFirst(v) == v # "last"

\* st = [seen, reads, log, overflow] is the process state mergeConfigs
\* threads through its recursion; d is the depth of the call.
RECURSIVE mergeConfigs(_, _, _, _, _)
RECURSIVE expandInclude(_, _, _, _, _)

expandInclude(v, o, n, st, d) ==
    IF n.Include = "" THEN [c |-> o, st |-> st]
    ELSE
      LET includeF == includeFile(n.Include) IN
      IF includeF \in st.seen
      THEN [c |-> o,
            st |-> [st EXCEPT !.log = Append(@, LogLine("seen", includeF))]]
      ELSE
        LET st1 == [st EXCEPT
                      !.reads[includeF] = @ + 1,
                      !.seen = IF MarksBeforeRead(v)
                               THEN @ \cup {includeF} ELSE @]
            i == readFromFile(v, includeF)
            r == IF i[FoundField(v)]
                 THEN mergeConfigs(v, o, i,
                        [st1 EXCEPT
                           !.log = Append(@, LogLine("included", includeF))],
                        d + 1)
                 ELSE [c |-> o, st |-> st1]
        IN  IF r.st.overflow THEN r
            ELSE [c |-> r.c, st |-> [r.st EXCEPT !.seen = @ \cup {includeF}]]

mergeConfigs(v, o, n, st, d) ==
    IF d > MaxDepth
    THEN [c |-> o, st |-> [st EXCEPT !.overflow = TRUE]]
    ELSE
      LET tagged == mergeStreamTags(v, o, n) IN
      IF IncludeFirst(v)
      THEN LET r == expandInclude(v, tagged, n, st, d)
           IN  [c |-> directFields(v, r.c, n), st |-> r.st]
      ELSE expandInclude(v, directFields(v, tagged, n), n, st, d)

-----------------------------------------------------------------------------
(* Override / derivation pass *)

VTuber == <<"VTuber">>
RedPanda == <<"RedPanda">>
Furry == <<"Furry">>
ENVTuber == <<"ENVTuber">>

\* the tag list the switch of applyOverrides prepends for a mode
ModeTags(mode) ==
    CASE mode = "Veadotube" -> <<VTuber, RedPanda, ENVTuber>>
      [] mode \in {"VTS", "VNyan"} -> <<VTuber, RedPanda, Furry, ENVTuber>>
      [] OTHER -> <<>>

validateVTuberSoftware(c) ==
    IF c.VTuberSoftware \notin validVTuberSoftware
    THEN [c EXCEPT !.VTuberSoftware = defaultVTuberSoftware]
    ELSE c

\* the mode step adding the tags of the mode and editing nothing else
applyModeOverridesTagsOnly(c) ==
    IF c.VTuberSoftware \in {"Veadotube", "VTS", "VNyan"}
    THEN [c EXCEPT !.StreamTags =
                     removeDuplicateStr(ModeTags(c.VTuberSoftware) \o @)]
    ELSE c

applyModeOverrides(c) ==
    CASE c.VTuberSoftware \in {"Veadotube", "VTS"} ->
            [c EXCEPT !.StreamTags =
                        removeDuplicateStr(ModeTags(c.VTuberSoftware) \o @),
                      !.OutfitPoll = FALSE,
                      !.VNyanOutfit = "",
                      !.NoBeanie = FALSE]
      [] c.VTuberSoftware = "VNyan" ->
            [c EXCEPT !.StreamTags =
                        removeDuplicateStr(ModeTags(c.VTuberSoftware) \o @),
                      !.OutfitPoll = IF c.VNyanOutfit # "" THEN FALSE ELSE @,
                      !.NoBeanie = FALSE]
      [] OTHER -> c

\* the tag list left at its length
capStreamTagsNever(c) == c

capStreamTags(c) ==
    IF Len(c.StreamTags) > MaxTags
    THEN [c EXCEPT !.StreamTags = SubSeq(@, 1, MaxTags)]
    ELSE c

\* the on-call overrides applied for the flag only
applyOnCallFlagOnly(c, onCallFlag) ==
    IF onCallFlag
    THEN [c EXCEPT !.OnCall = TRUE, !.BedTime = FALSE,
                   !.CreepyTime = FALSE, !.RaidRoulette = FALSE]
    ELSE c

applyOnCall(c, onCallFlag) ==
    IF onCallFlag \/ c.OnCall
    THEN [c EXCEPT !.OnCall = TRUE, !.BedTime = FALSE,
                   !.CreepyTime = FALSE, !.RaidRoulette = FALSE]
    ELSE c

applyOverridesModel(c) ==
    LET c1 == [c EXCEPT !.Include = ""]
    IN  IF ~c1.ConfigFound
        THEN [f \in DOMAIN c1 |->
                IF f \in BoolFieldsModel THEN FALSE ELSE c1[f]]
        ELSE c1

applyOverrides(v, c, onCallFlag) ==
    IF v = "model" THEN applyOverridesModel(c)
    ELSE
      LET c1 == [c EXCEPT !.Include = ""]
          c2 == validateVTuberSoftware(c1)
          c3 == applyModeOverrides(c2)
          c4 == capStreamTags(c3)
          c5 == IF v = "first" THEN [c4 EXCEPT !.GameName = Join(game)]
                ELSE c4
      IN  applyOnCall(c5, onCallFlag)


-----------------------------------------------------------------------------
(* Input files *)

\* {"comment": ...}: an object that sets no field of the record
Unset == [comment |-> "x"]

\* a number that tells the files apart in the int fields they set
Mark(name) ==
    CASE name = "global" -> 1 [] name = "game" -> 2 [] name = "day" -> 3
      [] name = "date" -> 4 [] name = "yeardate" -> 5 [] name = "model" -> 6
      [] name = "A" -> 11 [] OTHER -> 12

\* an object that references include inc and sets nothing else
IncOnly(inc) == [Include |-> inc]

\* an object that sets every order-sensitive field to a value of its own
Own(name, inc) ==
    [Include |-> inc, VNyanOutfit |-> name, PandaSign |-> name,
     TitleSuffix |-> name, Software |-> name,
     LPGameCost |-> Mark(name), LPTalkingCost |-> Mark(name),
     EndHour |-> Mark(name), EndMinute |-> Mark(name),
     StreamTags |-> << <<name>> >>]

\* an object that sets one boolean field
SetBool(field, b, inc) == (field :> b) @@ [Include |-> inc]

\* an object that carries the found flag as a key
FoundKey(b) ==
    [GameFound |-> b, ConfigFound |-> b, DeathCounter |-> TRUE,
     Bonk |-> FALSE, VNyanOutfit |-> "keyed", Software |-> "keyed"]

\* the file system holding the given contents, every other file absent
FileSystem(contents) ==
    [f \in Locators |-> IF f \in DOMAIN contents THEN contents[f] ELSE Absent]

Botconfigs == {"last", "first"}

IncludeRefs == {""} \cup IncludeNames

\* include graphs, with every file setting the order-sensitive fields
InitIncludes ==
    /\ vtuberSoftware = defaultVTuberSoftware
    /\ onCall = FALSE
    /\ \E a \in {Absent} \cup {Own("A", x) : x \in IncludeRefs},
          b \in {Absent} \cup {Own("B", x) : x \in IncludeRefs} :
         \/ /\ variant \in Botconfigs
            /\ \E g \in {Own("global", x) : x \in IncludeRefs}
                        \cup {IncOnly(x) : x \in IncludeRefs},
                  t \in {Absent} \cup {Own("game", x) : x \in IncludeRefs},
                  d \in {Absent} \cup {IncOnly(x) : x \in IncludeNames} :
                 files = FileSystem(
                    layerFile("global") :> g @@ layerFile("game") :> t
                    @@ layerFile("day") :> d
                    @@ includeFile("A") :> a @@ includeFile("B") :> b)
         \/ /\ variant = "model"
            /\ \E m \in {Absent} \cup {Own("model", x) : x \in IncludeRefs}
                        \cup {IncOnly(x) : x \in IncludeRefs} :
                 files = FileSystem(
                    layerFile("model") :> m
                    @@ includeFile("A") :> a @@ includeFile("B") :> b)

\* one boolean field set or left unset by two layers and an include
InitBools ==
    /\ vtuberSoftware = defaultVTuberSoftware
    /\ onCall = FALSE
    /\ variant \in Variants
    /\ \E field \in BoolFields(variant) :
         \E a \in {Absent} \cup {SetBool(field, x, "") : x \in BOOLEAN},
            n \in {Unset} \cup {SetBool(field, x, y) :
                                   x \in BOOLEAN, y \in {"", "A"}} :
            \/ /\ variant \in Botconfigs
               /\ \E g \in {Unset} \cup {SetBool(field, x, "") : x \in BOOLEAN} :
                    files = FileSystem(
                       layerFile("global") :> g @@ layerFile("game") :> n
                       @@ includeFile("A") :> a)
            \/ /\ variant = "model"
               /\ files = FileSystem(
                     layerFile("model") :> n @@ includeFile("A") :> a)

\* present, absent, malformed and found-keyed sources
InitSources ==
    /\ vtuberSoftware = defaultVTuberSoftware
    /\ onCall = FALSE
    /\ LET Sources == {Absent, Unset, Malformed, FoundKey(FALSE), FoundKey(TRUE)}
       IN  \E a \in {Absent, Unset, FoundKey(FALSE)} :
            \/ /\ variant \in Botconfigs
               /\ \E g \in Sources, t \in Sources \cup {IncOnly("A")},
                     d \in {Absent, Unset}, dt \in {Absent, Malformed},
                     y \in {Absent, Unset} :
                    files = FileSystem(
                       layerFile("global") :> g @@ layerFile("game") :> t
                       @@ layerFile("day") :> d @@ layerFile("date") :> dt
                       @@ layerFile("yeardate") :> y
                       @@ includeFile("A") :> a)
            \/ /\ variant = "model"
               /\ \E m \in Sources \cup {IncOnly("A")} :
                    files = FileSystem(
                       layerFile("model") :> m @@ includeFile("A") :> a)

\* the tag list <<prefix1, .., prefixn>>
Tags(prefix, n) == [i \in 1..n |-> <<prefix \o ToString(i)>>]

\* the tags "Foo Bar", "FooBar", "g1" and "Foo Bar" again
SpacedTags == << <<"Foo", "Bar">>, <<"FooBar">>, <<"g1">>, <<"Foo", "Bar">> >>

\* tag lists spread over the layers and an include, for every mode
InitTags ==
    /\ onCall = FALSE
    /\ variant \in Botconfigs
    /\ vtuberSoftware \in
         IF variant = "first" THEN {"None", "VNyan", "Veadotube"}
         ELSE {defaultVTuberSoftware}
    /\ \E g \in {[StreamTags |-> x, VTuberSoftware |-> y] :
                    x \in {Tags("g", 4), Tags("g", 11), SpacedTags},
                    y \in {"", "None"}},
          t \in {Absent, [StreamTags |-> Tags("t", 4)],
                 [StreamTags |-> Tags("t", 4), Include |-> "A"]},
          a \in {Absent, [StreamTags |-> <<<<"t1">>, <<"a1">>, <<"a2">>>>]},
          d \in {Absent, [StreamTags |-> <<<<"g1">>>> \o Tags("d", 4)]},
          dt \in {Absent, [StreamTags |-> Tags("e", 3)]} :
         files = FileSystem(
            layerFile("global") :> g @@ layerFile("game") :> t
            @@ layerFile("day") :> d @@ layerFile("date") :> dt
            @@ includeFile("A") :> a)

\* legal and illegal modes in the flag, the layers and an include
InitModes ==
    /\ onCall = FALSE
    /\ variant \in Botconfigs
    /\ vtuberSoftware \in
         IF variant = "first"
         THEN validVTuberSoftware \cup {"Bogus"}
         ELSE {defaultVTuberSoftware}
    /\ \E g \in {Unset} \cup
                {[VTuberSoftware |-> x, StreamTags |-> Tags("g", 11)] :
                    x \in {"VTS", "Bogus"}},
          t \in {Absent, [VTuberSoftware |-> "Bogus", Include |-> "A"]}
                \cup {[VTuberSoftware |-> x] :
                        x \in {"Bogus", "None", "Veadotube"}},
          a \in {Absent, [VTuberSoftware |-> "VTS"]},
          d \in {Absent, [VTuberSoftware |-> "Veadotube"]} :
         files = FileSystem(
            layerFile("global") :> g @@ layerFile("game") :> t
            @@ layerFile("day") :> d @@ includeFile("A") :> a)

\* title suffixes set by the layers and an include
InitTitles ==
    /\ vtuberSoftware = defaultVTuberSoftware
    /\ onCall = FALSE
    /\ variant \in Botconfigs
    /\ \E g \in {Unset, [TitleSuffix |-> "g"], [TitleSuffix |-> ""]},
          t \in {Absent, [TitleSuffix |-> "t"], [Include |-> "A"],
                 [TitleSuffix |-> "t", Include |-> "A"]},
          a \in {Absent, [TitleSuffix |-> "a"]},
          d \in {Absent, [TitleSuffix |-> "d"]} :
         files = FileSystem(
            layerFile("global") :> g @@ layerFile("game") :> t
            @@ layerFile("day") :> d @@ includeFile("A") :> a)

\* the two costs set by single layers and an include, or left unset
InitCosts ==
    /\ vtuberSoftware = defaultVTuberSoftware
    /\ onCall = FALSE
    /\ variant \in Botconfigs
    /\ \E g \in {Unset, [LPGameCost |-> Mark("global")],
                 [LPTalkingCost |-> Mark("global")], [Include |-> "A"]},
          t \in {Absent, Unset, [LPGameCost |-> Mark("game")],
                 [LPGameCost |-> Mark("game"), Include |-> "A"]},
          d \in {Absent, Unset, [LPTalkingCost |-> Mark("day")]},
          dt \in {Absent, [LPGameCost |-> defaultLPGameCost],
                  [LPGameCost |-> Mark("date")]},
          a \in {Absent, [LPGameCost |-> Mark("A")],
                 [LPTalkingCost |-> Mark("A")]} :
         files = FileSystem(
            layerFile("global") :> g @@ layerFile("game") :> t
            @@ layerFile("day") :> d @@ layerFile("date") :> dt
            @@ includeFile("A") :> a)

\* tags that differ only in their spaces, in two layers and an include; the
\* day layer carries the list of the global layer a second time
InitSpaced ==
    /\ vtuberSoftware = defaultVTuberSoftware
    /\ onCall = FALSE
    /\ variant \in Botconfigs
    /\ \E gt \in {<< <<"Foo", "Bar">> >>, << <<"FooBar">> >>, SpacedTags},
          t \in {Absent,
                 [StreamTags |-> << <<"FooBar">> >>],
                 [StreamTags |-> << <<"t1">>, <<"F", "oo", "Bar">>,
                                    <<"t", "1">>, <<"g1">> >>],
                 [StreamTags |-> << <<"t1">>, <<"Foo", "Bar">> >>,
                  Include |-> "A"]},
          a \in {Absent,
                 [StreamTags |-> << <<"a", "1">>, <<"t1">>, <<"a1">> >>]},
          second \in BOOLEAN :
         files = FileSystem(
            layerFile("global") :> [StreamTags |-> gt]
            @@ layerFile("game") :> t
            @@ layerFile("day") :>
                 (IF second THEN [StreamTags |-> gt] ELSE Absent)
            @@ includeFile("A") :> a)

\* the five layers without includes, each absent, setting every
\* order-sensitive field, setting the label only, or (the date layer)
\* carrying the unset values as explicit keys beside one cost
InitOrder ==
    /\ vtuberSoftware = defaultVTuberSoftware
    /\ onCall = FALSE
    /\ variant \in Botconfigs
    /\ LET Choices(name) == {Absent, Own(name, ""), [PandaSign |-> name]}
       IN  \E g \in Choices("global"), t \in Choices("game"),
              d \in Choices("day"),
              dt \in Choices("date") \cup
                     {[PandaSign |-> "default", VNyanOutfit |-> "",
                       LPGameCost |-> defaultLPGameCost,
                       LPTalkingCost |-> Mark("date")]},
              y \in Choices("yeardate") :
             files = FileSystem(
                layerFile("global") :> g @@ layerFile("game") :> t
                @@ layerFile("day") :> d @@ layerFile("date") :> dt
                @@ layerFile("yeardate") :> y)

\* the on-call flag, and layers and an include that set oncall and the
\* three booleans the on-call overrides clear
InitOnCall ==
    /\ vtuberSoftware = defaultVTuberSoftware
    /\ onCall \in BOOLEAN
    /\ variant \in Botconfigs
    /\ \E g \in {Unset, [OnCall |-> TRUE],
                 [BedTime |-> TRUE, CreepyTime |-> TRUE],
                 [OnCall |-> FALSE, BedTime |-> TRUE, RaidRoulette |-> FALSE]},
          t \in {Absent, [Include |-> "A"],
                 [CreepyTime |-> TRUE, Include |-> "A"],
                 [OnCall |-> TRUE, BedTime |-> TRUE]},
          a \in {Absent, [OnCall |-> TRUE], [BedTime |-> TRUE]} :
         files = FileSystem(
            layerFile("global") :> g @@ layerFile("game") :> t
            @@ includeFile("A") :> a)

\* every mode, legal or not, over layers that set the outfit, NoBeanie and
\* OutfitPoll, with and without the on-call flag
InitOutfits ==
    /\ onCall \in BOOLEAN
    /\ variant \in Botconfigs
    /\ vtuberSoftware \in
         IF variant = "first"
         THEN validVTuberSoftware \cup {"Bogus"}
         ELSE {defaultVTuberSoftware}
    /\ \E g \in {[NoBeanie |-> TRUE],
                 [NoBeanie |-> TRUE, VNyanOutfit |-> "g"],
                 [VNyanOutfit |-> "g",
                  StreamTags |-> Tags("g", 9) \o << Furry >>]},
          t \in {Absent} \cup
                {[VTuberSoftware |-> x] : x \in validVTuberSoftware},
          d \in {Absent, [OutfitPoll |-> FALSE, BedTime |-> TRUE]} :
         files = FileSystem(
            layerFile("global") :> g @@ layerFile("game") :> t
            @@ layerFile("day") :> d)

\* notify intervals below, at and above the default, zero and negative, in
\* the layers and an include
InitNotify ==
    /\ vtuberSoftware = defaultVTuberSoftware
    /\ onCall = FALSE
    /\ variant \in Botconfigs
    /\ \E g \in {Unset} \cup {[NotifyInterval |-> x] : x \in {3, 5, 7}},
          t \in {Absent, [NotifyInterval |-> 0],
                 [NotifyInterval |-> 4],
                 [NotifyInterval |-> 6, Include |-> "A"]},
          a \in {Absent} \cup {[NotifyInterval |-> x] : x \in {-1, 2, 9}},
          d \in {Absent} \cup {[NotifyInterval |-> x] : x \in {1, 8}} :
         files = FileSystem(
            layerFile("global") :> g @@ layerFile("game") :> t
            @@ layerFile("day") :> d @@ includeFile("A") :> a)

-----------------------------------------------------------------------------
(* main *)

Init ==
    /\ \/ InitIncludes
       \/ InitBools
       \/ InitSources
       \/ InitTags
       \/ InitModes
       \/ InitTitles
       \/ InitCosts
       \/ InitSpaced
       \/ InitOrder
       \/ InitOnCall
       \/ InitOutfits
       \/ InitNotify
    /\ pc = "read"
    /\ configs = [l \in {} |-> Absent]
    /\ twitchConfigs = newConfig(variant)
    /\ includesSeen = {}
    /\ reads = [f \in IncludeFiles |-> 0]
    /\ log = <<>>

Range(s) == {s[i] : i \in DOMAIN s}

\* the position after layer l
NextPc(v, l) ==
    LET keys == LayerKeys(v)
        i == CHOOSE k \in DOMAIN keys : keys[k] = l
    IN  IF i = Len(keys) THEN "overrides" ELSE keys[i + 1]

\* "Reading configs...": readFromFile on every layer file, then the fresh
\* accumulator with the mode main starts from
ReadConfigs ==
    /\ pc = "read"
    /\ configs' = [l \in Range(LayerKeys(variant)) |->
                     readFromFile(variant, layerFile(l))]
    /\ twitchConfigs' =
         CASE variant = "last" ->
                [newConfig(variant) EXCEPT
                    !.VTuberSoftware = defaultVTuberSoftware]
           [] variant = "first" ->
                [newConfig(variant) EXCEPT !.VTuberSoftware = vtuberSoftware]
           [] OTHER -> newConfig(variant)
    /\ pc' = LayerKeys(variant)[1]
    /\ UNCHANGED <<variant, files, vtuberSoftware, onCall, includesSeen,
                   reads, log>>

ProcessState == [seen |-> includesSeen, reads |-> reads, log |-> log,
                 overflow |-> FALSE]

\* if <layer>Config.GameFound { twitchConfigs = mergeConfigs(...) }; a
\* recursion that exhausts the stack ends the process
FoldLayer(l) ==
    /\ pc = l
    /\ IF configs[l][FoundField(variant)]
       THEN LET r == mergeConfigs(variant, twitchConfigs, configs[l],
                        [ProcessState EXCEPT
                            !.log = Append(@, LogLine("layer", layerFile(l)))],
                        1)
            IN  /\ includesSeen' = r.st.seen
                /\ reads' = r.st.reads
                /\ log' = r.st.log
                /\ IF r.st.overflow
                   THEN pc' = "crashed" /\ UNCHANGED twitchConfigs
                   ELSE pc' = NextPc(variant, l) /\ twitchConfigs' = r.c
       ELSE /\ pc' = NextPc(variant, l)
            /\ twitchConfigs' =
                 IF l = "game"
                 THEN [twitchConfigs EXCEPT !.StreamTags =
                         removeDuplicateStr(@ \o defaultTags)]
                 ELSE twitchConfigs
            /\ UNCHANGED <<includesSeen, reads, log>>
    /\ UNCHANGED <<variant, files, vtuberSoftware, onCall, configs>>

FoldGlobal == FoldLayer("global")
FoldGame == FoldLayer("game")
FoldDay == FoldLayer("day")
FoldDate == FoldLayer("date")
FoldYearDate == FoldLayer("yeardate")
FoldModel == FoldLayer("model")

\* --modelFile, as the sequence of its characters
modelFile == <<"r", "e", "d", ".", "v", "r", "m">>

\* strings.Split(f, ".")[0]
sanitizeModelFileName(f) ==
    IF \E i \in DOMAIN f : f[i] = "."
    THEN SubSeq(f, 1, (CHOOSE i \in DOMAIN f :
                         f[i] = "." /\ \A j \in 1..(i - 1) : f[j] # ".") - 1)
    ELSE f

\* "Apply overrides."; modelconfig.go first copies the layer's ConfigFound
ApplyOverrides ==
    /\ pc = "overrides"
    /\ twitchConfigs' =
         IF variant = "model"
         THEN applyOverrides(variant,
                [twitchConfigs EXCEPT
                    !.ConfigFound = configs["model"].ConfigFound], onCall)
         ELSE applyOverrides(variant, twitchConfigs, onCall)
    /\ pc' = "finish"
    /\ UNCHANGED <<variant, files, vtuberSoftware, onCall, configs,
                   includesSeen, reads, log>>

\* "Things we need to set after all is said and done."
Finish ==
    /\ pc = "finish"
    /\ twitchConfigs' =
         CASE variant = "last" ->
                [twitchConfigs EXCEPT
                    !.GameName = Join(game),
                    !.GameFound = configs["game"].GameFound]
           [] variant = "first" ->
                [twitchConfigs EXCEPT
                    !.SanitizedGameName = Join(sanitizeGame(game)),
                    !.GameFound = configs["game"].GameFound]
           [] OTHER ->
                [twitchConfigs EXCEPT
                    !.ModelFileName = Join(sanitizeModelFileName(modelFile))]
    /\ pc' = "done"
    /\ UNCHANGED <<variant, files, vtuberSoftware, onCall, configs,
                   includesSeen, reads, log>>

Next ==
    \/ ReadConfigs
    \/ FoldGlobal
    \/ FoldGame
    \/ FoldDay
    \/ FoldDate
    \/ FoldYearDate
    \/ FoldModel
    \/ ApplyOverrides
    \/ Finish

Spec == Init /\ [][Next]_vars


\* the accumulator main starts the folds from
startConfig(v, flag) ==
    CASE v = "last" ->
           [newConfig(v) EXCEPT !.VTuberSoftware = defaultVTuberSoftware]
      [] v = "first" -> [newConfig(v) EXCEPT !.VTuberSoftware = flag]
      [] OTHER -> newConfig(v)

\* the folds of main over the layers in the given order: a found layer is
\* merged, a topic layer that is not found adds the default tags
RECURSIVE foldLayers(_, _, _, _)
foldLayers(v, acc, order, st) ==
    IF order = <<>> \/ st.overflow THEN [c |-> acc, st |-> st]
    ELSE LET l == Head(order)
             n == readFromFile(v, layerFile(l))
             r == IF n[FoundField(v)]
                  THEN mergeConfigs(v, acc, n, st, 1)
                  ELSE [c |-> IF l = "game"
                              THEN [acc EXCEPT !.StreamTags =
                                      removeDuplicateStr(@ \o defaultTags)]
                              ELSE acc,
                        st |-> st]
         IN  foldLayers(v, r.c, Tail(order), r.st)

-----------------------------------------------------------------------------
(* Properties *)

Folded(l) == configs[l][FoundField(variant)]

\* the step folds the found layer at pc and mergeConfigs returns
FoldStep == pc \in LayerSet /\ Folded(pc) /\ pc' # "crashed"

\* the record of include fragment name as readFromFile returns it
IncludeRecord(name) == readFromFile(variant, includeFile(name))

\* the layer file sets no field and references no include
ZeroLayer(l) ==
    configs[l] = [newConfig(variant) EXCEPT ![FoundField(variant)] = TRUE]

\* C1: folding over an include graph with a cycle terminates, and every
\* include fragment is read at most once in the run, in all three builds.
C1_CycleTerminatesReadOnce ==
    /\ pc # "crashed"
    /\ \A f \in IncludeFiles : reads[f] <= 1

\* C2: a fold resolves every boolean field by AND if the field is true in
\* newConfig() and by OR if it is false there: a false (true) operand forces
\* the result, and without an include the result is exactly o AND n (o OR n).
C2_BoolPolarity ==
    [][FoldStep =>
        \A f \in BoolFields(variant) :
            LET o == twitchConfigs[f]
                n == configs[pc][f]
                r == twitchConfigs'[f]
            IN  IF newConfig(variant)[f]
                THEN /\ (~o \/ ~n) => ~r
                     /\ configs[pc].Include = "" => (r <=> (o /\ n))
                ELSE /\ (o \/ n) => r
                     /\ configs[pc].Include = "" => (r <=> (o \/ n))]_vars

\* two found layers disagreed on a boolean and the fold took the value that
\* is not the field's default
C2_Witness ==
    /\ pc = "day"
    /\ Folded("global") /\ Folded("game")
    /\ \E f \in BoolFields(variant) \ {FoundField(variant)} :
         /\ configs["global"][f] # configs["game"][f]
         /\ twitchConfigs[f] = ~newConfig(variant)[f]

\* C3: the found flag of a record read by readFromFile is true exactly when
\* the source exists, whatever the source contains, and the record of an
\* absent source is the zero-value record.
C3_FoundIffPresent ==
    pc # "read" =>
        \A l \in DOMAIN configs :
            /\ Folded(l) <=> Exists(layerFile(l))
            /\ ~Exists(layerFile(l)) => configs[l] = newConfig(variant)

\* the fields whose result depends on the order of the folds
OrderFields(v) ==
    IF v = "model" THEN {"Software"}
    ELSE {"VNyanOutfit", "PandaSign", "LPGameCost", "LPTalkingCost",
          "EndHour", "EndMinute"}

\* record c sets order-sensitive field f: it holds another value than the
\* one the fold takes for unset
SetsField(c, f) ==
    CASE f \in {"VNyanOutfit", "Software"} -> c[f] # ""
      [] f = "PandaSign" -> c[f] # "default"
      [] f = "LPGameCost" -> c[f] # defaultLPGameCost
      [] f = "LPTalkingCost" -> c[f] # defaultLPTalkingCost
      [] OTHER -> c[f] # 0

\* the step folds a layer whose include is read and folded in this step
FoldsInclude ==
    /\ FoldStep
    /\ configs[pc].Include # ""
    /\ includeFile(configs[pc].Include) \notin includesSeen
    /\ IncludeRecord(configs[pc].Include)[FoundField(variant)]

\* C4 as stated: when a layer and the include it folds set the same
\* order-sensitive field, the accumulator holds the layer's value after the
\* fold, in all three builds.
C4_OriginalWinsEverywhere ==
    [][FoldsInclude =>
        \A f \in OrderFields(variant) :
            (SetsField(configs[pc], f)
                /\ SetsField(IncludeRecord(configs[pc].Include), f))
            => twitchConfigs'[f] = configs[pc][f]]_vars

\* C4 amended: the layer's value wins in the builds that fold the include
\* first ("first", "model"); in the build that folds it last the value of
\* the include wins (stated for an include without include of its own).
C4_OriginalWinsIfIncludeFirst ==
    [][FoldsInclude =>
        \A f \in OrderFields(variant) :
            LET i == IncludeRecord(configs[pc].Include)
            IN  (SetsField(configs[pc], f) /\ SetsField(i, f)) =>
                   /\ variant \in {"first", "model"}
                        => twitchConfigs'[f] = configs[pc][f]
                   /\ (variant = "last" /\ i.Include = "")
                        => twitchConfigs'[f] = i[f]]_vars

\* the global layer and the include it folded both set the outfit and the
\* accumulator holds the layer's
C4_Witness ==
    /\ pc = "game"
    /\ variant = "first"
    /\ configs["global"].Include = "A"
    /\ configs["global"].VNyanOutfit = "global"
    /\ includeFile("A") \in includesSeen
    /\ IncludeRecord("A").GameFound
    /\ IncludeRecord("A").VNyanOutfit = "A"
    /\ twitchConfigs.VNyanOutfit = "global"

\* C5: includesSeen only grows, every include fragment is read only at its
\* first reference, and a fold at a later reference gives what the fold of
\* the same layer without the reference gives.
C5_IncludeFoldedOnce ==
    [][/\ includesSeen \subseteq includesSeen'
       /\ \A f \in IncludeFiles : reads'[f] <= 1
       /\ (/\ FoldStep
           /\ configs[pc].Include # ""
           /\ includeFile(configs[pc].Include) \in includesSeen)
          => twitchConfigs' =
               mergeConfigs(variant, twitchConfigs,
                            [configs[pc] EXCEPT !.Include = ""],
                            ProcessState, 1).c]_vars

\* C6 as stated: folding a found layer that sets no field and has no
\* include leaves every field of the accumulator unchanged.
C6_ZeroLayerIdentity ==
    [][(FoldStep /\ ZeroLayer(pc)) => twitchConfigs' = twitchConfigs]_vars

\* C6 amended: such a fold leaves every field unchanged except the found
\* flag (GameFound, ConfigFound), which it sets to true.
C6_ZeroLayerIdentityButFound ==
    [][(FoldStep /\ ZeroLayer(pc)) =>
        twitchConfigs' =
            [twitchConfigs EXCEPT ![FoundField(variant)] = TRUE]]_vars

\* a layer that sets nothing was folded into an accumulator that holds the
\* values of an earlier layer
C6_Witness ==
    /\ pc = "day"
    /\ ZeroLayer("game")
    /\ Folded("global")
    /\ configs["global"].VNyanOutfit = "keyed"
    /\ twitchConfigs.VNyanOutfit = "keyed"
    /\ twitchConfigs.DeathCounter
    /\ twitchConfigs.GameFound


\* the output record is written
Output == pc = "done" /\ variant \in Botconfigs

\* the StreamTags of the file a log line names; "Already seen" lines fold
\* nothing
LineTags(line) ==
    IF line.msg = "seen" THEN <<>>
    ELSE readFromFile(variant, line.key).StreamTags

RECURSIVE LogTags(_, _)
\* the tags of the log lines from line i up to the next layer line
LogTags(i, first) ==
    IF i > Len(log) \/ (~first /\ log[i].msg = "layer") THEN <<>>
    ELSE LineTags(log[i]) \o LogTags(i + 1, FALSE)

\* the tags layer l and the includes folded for it contributed, in the order
\* of the log; for an unfolded topic layer the fallback tags
LayerTags(l) ==
    IF Folded(l)
    THEN LogTags(CHOOSE i \in DOMAIN log :
                    log[i] = LogLine("layer", layerFile(l)), TRUE)
    ELSE IF l = "game" THEN defaultTags ELSE <<>>

RECURSIVE ContributedFrom(_)
ContributedFrom(k) ==
    IF k > Len(LayerKeys(variant)) THEN <<>>
    ELSE LayerTags(LayerKeys(variant)[k]) \o ContributedFrom(k + 1)

\* all tags of the run in the order in which the folds contributed them
Contributed == ContributedFrom(1)

Contains(list, tag) == \E i \in DOMAIN list : list[i] = tag

ContainsAll(list, tags) == \A i \in DOMAIN tags : Contains(list, tags[i])

\* C7: the StreamTags list of the output record has at most 10 elements.
C7_AtMostTenTags ==
    (pc \in {"finish", "done"} /\ variant \in Botconfigs)
        => Len(twitchConfigs.StreamTags) <= 10

\* more than 10 tags went into applyOverrides and 10 came out
C7_Witness ==
    /\ Output
    /\ Len(removeDuplicateStr(Contributed)) > 10
    /\ Len(twitchConfigs.StreamTags) = 10

\* C8 as stated: when the folds contribute more than 10 distinct tags, the
\* output list is the first 10 of them in the order of their first
\* contribution, for every mode.
C8_FirstTenContributed ==
    (Output /\ Len(removeDuplicateStr(Contributed)) > 10)
        => twitchConfigs.StreamTags =
             SubSeq(removeDuplicateStr(Contributed), 1, 10)

\* C8 amended: the output list is the first 10 of the tags of the output
\* mode (none for mode None) followed by the contributed tags, without
\* spaces and without duplicates.
C8_FirstTenAfterModeTags ==
    (Output /\ Len(removeDuplicateStr(Contributed)) > 10)
        => twitchConfigs.StreamTags =
             SubSeq(removeDuplicateStr(
                        ModeTags(twitchConfigs.VTuberSoftware)
                            \o Contributed), 1, 10)

\* four layers contributed 15 distinct tags under mode VNyan
C8_Witness ==
    /\ Output
    /\ twitchConfigs.VTuberSoftware = "VNyan"
    /\ \A l \in {"global", "game", "day", "date"} :
         Folded(l) /\ configs[l].StreamTags # <<>>
    /\ Len(removeDuplicateStr(Contributed)) = 15
    /\ Len(twitchConfigs.StreamTags) = 10
    /\ twitchConfigs.StreamTags[5] = <<"g1">>

IllegalMode(c) ==
    c.VTuberSoftware # "" /\ c.VTuberSoftware \notin validVTuberSoftware

\* no layer after the topic layer and no include of the topic layer sets a
\* mode
NoLaterMode ==
    /\ configs["game"].Include = ""
    /\ \A l \in DOMAIN configs :
         l \in {"day", "date", "yeardate"} =>
            (~Folded(l) \/ configs[l].VTuberSoftware = "")

\* C9 as stated: a folded topic layer with an illegal mode makes the output
\* mode the default mode with its tags in the output list, whatever the flag
\* or the global layer selected before, and the output mode is always legal.
\* (Runs in which a later layer or an include selects a mode are left out.)
C9_IllegalTopicModeResets ==
    Output =>
        /\ twitchConfigs.VTuberSoftware \in {"None", "Veadotube", "VNyan", "VTS"}
        /\ (Folded("game") /\ IllegalMode(configs["game"]) /\ NoLaterMode) =>
              /\ twitchConfigs.VTuberSoftware = "VNyan"
              /\ ContainsAll(twitchConfigs.StreamTags, ModeTags("VNyan"))

\* C9 amended: the fold treats an illegal mode of a layer as an unset mode,
\* so the mode selected before is kept; applyOverrides keeps a legal mode,
\* replaces an illegal one by the default, and puts the tags of the
\* resulting mode into the tag list.
C9_IllegalModeIgnored ==
    [][/\ (FoldStep /\ variant \in Botconfigs /\ IllegalMode(configs[pc]))
            => twitchConfigs' =
                 mergeConfigs(variant, twitchConfigs,
                              [configs[pc] EXCEPT !.VTuberSoftware = ""],
                              ProcessState, 1).c
       /\ (pc = "overrides" /\ variant \in Botconfigs)
            => LET before == twitchConfigs.VTuberSoftware
                   after == twitchConfigs'.VTuberSoftware
               IN  /\ after \in {"None", "Veadotube", "VNyan", "VTS"}
                   /\ before \in {"None", "Veadotube", "VNyan", "VTS"}
                        => after = before
                   /\ before \notin {"None", "Veadotube", "VNyan", "VTS"}
                        => after = "VNyan"
                   /\ ContainsAll(twitchConfigs'.StreamTags,
                                  ModeTags(after))]_vars

\* the topic layer set an illegal mode and the output has the mode of the
\* flag, which is not the default
C9_Witness ==
    /\ Output
    /\ variant = "first"
    /\ Folded("game")
    /\ configs["game"].VTuberSoftware = "Bogus"
    /\ vtuberSoftware = "Veadotube"
    /\ twitchConfigs.VTuberSoftware = "Veadotube"

\* C10: without topic file the fallback tags are in the output tag list and
\* the output gamefound is false; with a topic file the output gamefound is
\* true.
C10_TopicAbsentFallback ==
    Output =>
        IF Exists(layerFile("game"))
        THEN twitchConfigs.GameFound
        ELSE /\ ~twitchConfigs.GameFound
             /\ ContainsAll(twitchConfigs.StreamTags,
                            << <<"FirstPlaythrough">>, <<"NoBackseating">> >>)

\* the files folded so far: the layers main folded and the includes
\* mergeConfigs folded for them
FoldedFiles == {log[i].key : i \in {j \in DOMAIN log : log[j].msg # "seen"}}

\* the record readFromFile returned for a folded file
FoldedRecord(f) == readFromFile(variant, f)

\* C11: folding a layer with a non-empty title suffix into an accumulator
\* with a non-empty title suffix gives the accumulator's value, " | " and the
\* incoming value; an empty accumulator value gives the incoming value; an
\* empty incoming value keeps the accumulator's. (Stated for layers without
\* include.)
C11_TitleSuffixConcatenates ==
    [][(FoldStep /\ variant \in Botconfigs /\ configs[pc].Include = "") =>
        LET o == twitchConfigs.TitleSuffix
            n == configs[pc].TitleSuffix
        IN  twitchConfigs'.TitleSuffix =
              IF n = "" THEN o
              ELSE IF o = "" THEN n
              ELSE o \o " | " \o n]_vars

\* the sentinel of a sentinel-overrides cost field
Sentinel(f) == IF f = "LPGameCost" THEN 500 ELSE 250

\* the folded files whose record holds another value of f than the sentinel
CostSetters(f) == {k \in FoldedFiles : FoldedRecord(k)[f] # Sentinel(f)}

\* C12: for LPGameCost (sentinel 500) and LPTalkingCost (sentinel 250): if
\* every folded layer and include leaves the field at its sentinel the output
\* holds the sentinel; if exactly one of them sets another value v the output
\* holds v, wherever that file sits in the fold order.
C12_SentinelCost ==
    Output =>
        \A f \in {"LPGameCost", "LPTalkingCost"} :
            /\ CostSetters(f) = {} => twitchConfigs[f] = Sentinel(f)
            /\ \A k \in CostSetters(f) :
                 CostSetters(f) = {k}
                    => twitchConfigs[f] = FoldedRecord(k)[f]

\* the global layer alone set the game cost, three layers were folded after
\* it, one of them with the sentinel as an explicit key, and the output holds
\* the value of the global layer
C12_Witness ==
    /\ Output
    /\ CostSetters("LPGameCost") = {layerFile("global")}
    /\ Folded("game") /\ Folded("day") /\ Folded("date")
    /\ "LPGameCost" \in DOMAIN files[layerFile("date")]
    /\ twitchConfigs.LPGameCost = 1
    /\ twitchConfigs.LPTalkingCost = 3

\* the found layers of the run in every order
FoldOrders ==
    LET IsFolded(l) == Folded(l)
        keys == SelectSeq(LayerKeys(variant), IsFolded)
    IN  {[i \in DOMAIN keys |-> keys[p[i]]] : p \in Permutations(DOMAIN keys)}

\* the accumulator the folds of main give when they run in the given order
\* in a fresh process
FoldedInOrder(order) ==
    foldLayers(variant, startConfig(variant, vtuberSoftware), order,
               [seen |-> {}, reads |-> [f \in IncludeFiles |-> 0],
                log |-> <<>>, overflow |-> FALSE])

\* C13: after all found layers and the includes they reference are folded,
\* every boolean field of the accumulator holds the value it holds when the
\* same layers are folded in any other order.
C13_BoolOrderIndependent ==
    pc = "overrides" =>
        \A order \in FoldOrders :
            LET r == FoldedInOrder(order)
            IN  /\ ~r.st.overflow
                /\ \A f \in BoolFields(variant) : r.c[f] = twitchConfigs[f]

\* two folded layers disagreed on a boolean, one of them folded an include,
\* and the accumulator holds the value that is not the field's default
C13_Witness ==
    /\ pc = "overrides"
    /\ variant \in Botconfigs
    /\ Folded("global") /\ Folded("game")
    /\ includesSeen # {}
    /\ \E f \in BoolFields(variant) \ {"GameFound"} :
         /\ configs["global"][f] # configs["game"][f]
         /\ twitchConfigs[f] = ~newConfig(variant)[f]

\* tags a and b are equal after their spaces are removed
SameTag(a, b) == Join(a) = Join(b)

\* the position of the first tag of list that is the same tag as tag
FirstSeen(list, tag) ==
    CHOOSE i \in DOMAIN list :
        /\ SameTag(list[i], tag)
        /\ \A j \in 1..(i - 1) : ~SameTag(list[j], tag)

\* C14: the tag union of a fold holds no tag with a space and no two tags
\* that are the same after their spaces are removed; the existing tags come
\* first, in their order, then the incoming tags that are new, in the order
\* in which the layer first names them; the list has as many elements as
\* there are distinct space-free tags (one for "Foo Bar" and "FooBar"); and
\* folding the same layer a second time leaves the list as it is.
C14_TagUnion ==
    [][(FoldStep /\ variant \in Botconfigs) =>
        LET old == twitchConfigs.StreamTags
            inc == configs[pc].StreamTags
            new == twitchConfigs'.StreamTags
            both == old \o inc
        IN  /\ \A i \in DOMAIN new : Len(new[i]) = 1
            /\ \A i, j \in DOMAIN new : SameTag(new[i], new[j]) => i = j
            /\ Len(old) <= Len(new) /\ SubSeq(new, 1, Len(old)) = old
            /\ \A i \in DOMAIN inc : \E j \in DOMAIN new : SameTag(new[j], inc[i])
            /\ configs[pc].Include = "" =>
                 /\ Len(new) = Cardinality({Join(both[i]) : i \in DOMAIN both})
                 /\ \A i, j \in (Len(old) + 1)..Len(new) :
                      i < j => FirstSeen(inc, new[i]) < FirstSeen(inc, new[j])
                 /\ mergeConfigs(variant, twitchConfigs', configs[pc],
                                 ProcessState, 1).c.StreamTags = new]_vars

\* the global layer gave "Foo Bar", the topic layer "FooBar", and the
\* accumulator holds one tag
C14_Witness ==
    /\ pc = "day"
    /\ variant \in Botconfigs
    /\ Folded("global") /\ Folded("game")
    /\ configs["global"].StreamTags = << <<"Foo", "Bar">> >>
    /\ configs["game"].StreamTags = << <<"FooBar">> >>
    /\ twitchConfigs.StreamTags = << <<"FooBar">> >>

\* the fixed order of the layers
FixedOrder == <<"global", "game", "day", "date", "yeardate">>

\* the position in the fixed order of the layer read from file f
FixedPosition(f) == CHOOSE k \in DOMAIN FixedOrder : layerFile(FixedOrder[k]) = f

\* the positions of the folded layers that set field f
LayerSetters(f) ==
    {k \in DOMAIN FixedOrder :
        /\ FixedOrder[k] \in DOMAIN configs
        /\ Folded(FixedOrder[k])
        /\ SetsField(configs[FixedOrder[k]], f)}

\* C15: the layers are folded in the order global, topic, day, date, date
\* with year, and when no folded layer has an include the accumulator after
\* the last fold holds, for every order-sensitive field that folded layers
\* set, the value of the latest of them in that order.
C15_LayerPriority ==
    (pc = "overrides" /\ variant \in Botconfigs) =>
        /\ \A i, j \in DOMAIN log :
             (i < j /\ log[i].msg = "layer" /\ log[j].msg = "layer")
                => FixedPosition(log[i].key) < FixedPosition(log[j].key)
        /\ (\A l \in DOMAIN configs : Folded(l) => configs[l].Include = "")
             => \A f \in OrderFields(variant) :
                  LET setters == LayerSetters(f)
                  IN  setters # {} =>
                        LET last == CHOOSE k \in setters :
                                        \A m \in setters : m <= k
                        IN  twitchConfigs[f] = configs[FixedOrder[last]][f]

\* the global and the topic layer both set the outfit and the costs, the
\* date layer set one cost beside explicit unset values, the layer of the
\* date with year set only the label, and each field holds the value of the
\* latest layer that set it
C15_Witness ==
    /\ pc = "overrides"
    /\ variant = "first"
    /\ Folded("global") /\ Folded("game") /\ Folded("day")
    /\ Folded("date") /\ Folded("yeardate")
    /\ configs["global"].VNyanOutfit = "global"
    /\ configs["game"].VNyanOutfit = "game"
    /\ configs["day"].PandaSign = "day"
    /\ twitchConfigs.VNyanOutfit = "game"
    /\ twitchConfigs.LPGameCost = 2
    /\ twitchConfigs.LPTalkingCost = 4
    /\ twitchConfigs.PandaSign = "yeardate"

\* the on-call flag is set or a folded layer or include sets oncall
OnCallRequested ==
    onCall \/ \E k \in FoldedFiles : FoldedRecord(k).OnCall

\* C16: if the on-call flag is true or a folded layer or include sets oncall
\* to true, applyOverrides gives OnCall true and BedTime, CreepyTime and
\* RaidRoulette false, whatever the folds resolved; otherwise it leaves the
\* three booleans as the folds resolved them; and the output record holds
\* the four values applyOverrides gave.
C16_OnCallOverrides ==
    [][/\ (pc = "overrides" /\ variant \in Botconfigs) =>
            IF OnCallRequested
            THEN /\ twitchConfigs'.OnCall
                 /\ ~twitchConfigs'.BedTime
                 /\ ~twitchConfigs'.CreepyTime
                 /\ ~twitchConfigs'.RaidRoulette
            ELSE \A f \in {"BedTime", "CreepyTime", "RaidRoulette"} :
                    twitchConfigs'[f] = twitchConfigs[f]
       /\ (pc = "finish" /\ variant \in Botconfigs) =>
            \A f \in {"OnCall", "BedTime", "CreepyTime", "RaidRoulette"} :
                twitchConfigs'[f] = twitchConfigs[f]]_vars

\* without the flag, an include set oncall, the global layer enabled BedTime
\* and CreepyTime, and the output has them cleared
C16_Witness ==
    /\ Output
    /\ ~onCall
    /\ Folded("global") /\ Folded("game")
    /\ configs["global"].BedTime /\ configs["global"].CreepyTime
    /\ ~configs["global"].OnCall /\ ~configs["game"].OnCall
    /\ includeFile("A") \in FoldedFiles
    /\ FoldedRecord(includeFile("A")).OnCall
    /\ twitchConfigs.OnCall
    /\ ~twitchConfigs.BedTime /\ ~twitchConfigs.CreepyTime
    /\ ~twitchConfigs.RaidRoulette

\* C17: applyOverrides validates the mode and then applies the edits of the
\* validated mode: Veadotube and VTS give OutfitPoll false, no VNyanOutfit
\* and NoBeanie false; VNyan gives NoBeanie false, and OutfitPoll false when
\* VNyanOutfit is set; under None the mode step changes no boolean and no
\* tag (the tag list is only cut to 10 and the on-call step may clear its
\* booleans); under every other mode the tags of the mode are in the tag
\* list; and the output record holds what applyOverrides gave.
C17_ModeEdits ==
    [][/\ (pc = "overrides" /\ variant \in Botconfigs) =>
            LET before == twitchConfigs
                after == twitchConfigs'
                mode == after.VTuberSoftware
                legal == {"None", "Veadotube", "VNyan", "VTS"}
            IN  /\ mode = IF before.VTuberSoftware \in legal
                          THEN before.VTuberSoftware ELSE "VNyan"
                /\ mode \in {"Veadotube", "VTS"} =>
                     /\ ~after.OutfitPoll
                     /\ after.VNyanOutfit = ""
                     /\ ~after.NoBeanie
                /\ mode = "VNyan" =>
                     /\ ~after.NoBeanie
                     /\ after.VNyanOutfit # "" => ~after.OutfitPoll
                /\ mode = "None" =>
                     /\ after.StreamTags =
                          SubSeq(before.StreamTags, 1,
                                 IF Len(before.StreamTags) > 10 THEN 10
                                 ELSE Len(before.StreamTags))
                     /\ \A f \in BoolFields(variant) :
                          \/ after[f] = before[f]
                          \/ /\ onCall \/ before.OnCall
                             /\ f \in {"OnCall", "BedTime", "CreepyTime",
                                        "RaidRoulette"}
                /\ mode # "None" =>
                     ContainsAll(after.StreamTags, ModeTags(mode))
       /\ (pc = "finish" /\ variant \in Botconfigs) =>
            \A f \in {"VTuberSoftware", "OutfitPoll", "VNyanOutfit",
                       "NoBeanie", "StreamTags"} :
                twitchConfigs'[f] = twitchConfigs[f]]_vars

\* the flag named an illegal mode, the global layer set NoBeanie and an
\* outfit, and the output has the edits of the default mode VNyan
C17_Witness ==
    /\ Output
    /\ variant = "first"
    /\ vtuberSoftware = "Bogus"
    /\ ~Folded("game")
    /\ configs["global"].NoBeanie
    /\ configs["global"].VNyanOutfit = "g"
    /\ twitchConfigs.VTuberSoftware = "VNyan"
    /\ twitchConfigs.VNyanOutfit = "g"
    /\ ~twitchConfigs.NoBeanie
    /\ ~twitchConfigs.OutfitPoll
    /\ ContainsAll(twitchConfigs.StreamTags,
                   << <<"VTuber">>, <<"RedPanda">>, <<"Furry">>,
                      <<"ENVTuber">> >>)

\* C18: in the model-config program, if the source of the model's config
\* does not exist every boolean of the output is false; if it exists the
\* output's ConfigFound is true and each redeem boolean is true exactly when
\* the model layer and every include folded for it left it true.
C18_ModelSourceFound ==
    (pc = "done" /\ variant = "model") =>
        IF ~Exists(layerFile("model"))
        THEN \A f \in BoolFieldsModel : ~twitchConfigs[f]
        ELSE /\ twitchConfigs.ConfigFound
             /\ \A f \in BoolFieldsModel \ {"ConfigFound"} :
                  twitchConfigs[f] <=>
                     \A k \in FoldedFiles : FoldedRecord(k)[f]

\* the least element of a non-empty set of integers
Least(S) == CHOOSE x \in S : \A y \in S : x <= y

\* the default and the NotifyInterval of every folded layer and include
NotifyValues == {5} \cup {FoldedRecord(k).NotifyInterval : k \in FoldedFiles}

\* C19: NotifyInterval never increases in a step, and after every step
\* that folds (or does not fold) a layer, applies the overrides or writes the
\* output it is the minimum of the default 5 and the values of all folded
\* layers and includes, hence at most 5.
C19_NotifyMinWins ==
    [][(variant \in Botconfigs /\ pc' # "crashed") =>
        /\ twitchConfigs'.NotifyInterval <= twitchConfigs.NotifyInterval
        /\ twitchConfigs'.NotifyInterval = Least(NotifyValues')
        /\ twitchConfigs'.NotifyInterval <= 5]_vars

\* the global layer set 7, the topic layer 6, its include -1 and the day
\* layer 1: the output holds -1
C19_Witness ==
    /\ Output
    /\ Folded("global") /\ configs["global"].NotifyInterval = 7
    /\ Folded("game") /\ configs["game"].NotifyInterval = 6
    /\ Folded("day") /\ configs["day"].NotifyInterval = 1
    /\ includeFile("A") \in FoldedFiles
    /\ FoldedRecord(includeFile("A")).NotifyInterval = -1
    /\ twitchConfigs.NotifyInterval = -1

====
